---- MODULE Spec2Model ----
(***************************************************************************)
(* A model of calibre-library-ts: the process-invocation layer             *)
(* (execCalibre, execCalibreJson, execCalibreStream), the error classes    *)
(* and the classifier determineErrorType, and the list / add / remove      *)
(* command adapters built on them.                                         *)
(*                                                                         *)
(* A text (captured standard output or standard error) is a sequence of   *)
(* one-character strings, so that lower-casing, substring search, the      *)
(* regular expressions and JSON decoding are computed character by         *)
(* character.  Command names, flags and argument values are atomic         *)
(* strings; an argument vector is a sequence of them.  An options object   *)
(* is a record that holds exactly the properties the caller set, so a      *)
(* property that is absent is a property that is undefined.                *)
(*                                                                         *)
(* The repository holds two generations of core/exec.ts.  A call names    *)
(* the one it is linked against in its field mod: "core" is                *)
(* src/src/core/exec.ts, "part_002" is src/unnamed/part_002.               *)
(*                                                                         *)
(* Spec follows one call of any public operation; SpecClassifier applies   *)
(* determineErrorType to an error text; SpecConcurrent follows two calls   *)
(* in flight together, which may have been passed the same args array.     *)
(***************************************************************************)
EXTENDS Integers, Sequences, FiniteSets, TLC

VARIABLES calls, classified

vars == <<calls, classified>>

-----------------------------------------------------------------------------
(* Characters and strings                                                   *)

UpperChars ==
  <<"A", "B", "C", "D", "E", "F", "G", "H", "I", "J", "K", "L", "M",
    "N", "O", "P", "Q", "R", "S", "T", "U", "V", "W", "X", "Y", "Z">>

LowerChars ==
  <<"a", "b", "c", "d", "e", "f", "g", "h", "i", "j", "k", "l", "m",
    "n", "o", "p", "q", "r", "s", "t", "u", "v", "w", "x", "y", "z">>

DigitChars == <<"0", "1", "2", "3", "4", "5", "6", "7", "8", "9">>

IsDigit(ch) == ch \in {"0", "1", "2", "3", "4", "5", "6", "7", "8", "9"}

\* \s of a regular expression, and what String.prototype.trim removes
IsSpace(ch) == ch \in {" ", "\t", "\n", "\r"}

\* what "." of a regular expression does not match
IsLineTerminator(ch) == ch \in {"\n", "\r"}

DigitValue(ch) == (CHOOSE i \in DOMAIN DigitChars : DigitChars[i] = ch) - 1

\* The lower-case letter of each upper-case letter, and the reverse
LowerOf ==
  [ch \in {UpperChars[i] : i \in DOMAIN UpperChars} |->
     LowerChars[CHOOSE i \in DOMAIN UpperChars : UpperChars[i] = ch]]

UpperOf ==
  [ch \in {LowerChars[i] : i \in DOMAIN LowerChars} |->
     UpperChars[CHOOSE i \in DOMAIN LowerChars : LowerChars[i] = ch]]

toLowerCaseChar(ch) == IF ch \in DOMAIN LowerOf THEN LowerOf[ch] ELSE ch

toUpperCaseChar(ch) == IF ch \in DOMAIN UpperOf THEN UpperOf[ch] ELSE ch

\* String.prototype.toLowerCase (SubSeq makes the result a sequence value)
toLowerCase(s) ==
  SubSeq([i \in 1..Len(s) |-> toLowerCaseChar(s[i])], 1, Len(s))

\* String.prototype.toUpperCase
toUpperCase(s) ==
  SubSeq([i \in 1..Len(s) |-> toUpperCaseChar(s[i])], 1, Len(s))

\* s has p at index i (1-based)
StartsWithAt(s, p, i) ==
  /\ i >= 1
  /\ i + Len(p) - 1 <= Len(s)
  /\ \A k \in 1..Len(p) : s[i + k - 1] = p[k]

\* String.prototype.includes
includes(s, p) == \E i \in 1..(Len(s) + 1) : StartsWithAt(s, p, i)

\* The value of a JavaScript string in a condition: "" is falsy
Truthy(s) == s # << >>

-----------------------------------------------------------------------------
(* Options objects                                                          *)

Has(o, k) == k \in DOMAIN o

\* if (options.k) for a string-valued property: undefined and "" are falsy
TruthyStr(o, k) == Has(o, k) /\ o[k] # ""

\* if (options.k) for a boolean property: undefined and false are falsy
TruthyBool(o, k) == Has(o, k) /\ o[k] = TRUE

\* { ...o, k: v }
Spread(o, k, v) == [p \in DOMAIN o \cup {k} |-> IF p = k THEN v ELSE o[p]]

EmptyObject == [p \in {} |-> TRUE]

-----------------------------------------------------------------------------
(* The error classes                                                        *)

\* The stderr and command of an error object that has no such property
UndefinedText == <<"undefined">>

UndefinedString == "undefined"

\* new CalibreError(message, command, stderr); message is its parts
CalibreError(message, command, stderr) ==
  [name |-> "CalibreError", message |-> message,
   command |-> command, stderr |-> stderr]

\* new BookNotFoundError(bookId, command, stderr)
BookNotFoundError(bookId, command, stderr) ==
  [name |-> "BookNotFoundError",
   message |-> <<"Book with ID ", bookId, " not found">>,
   command |-> command, stderr |-> stderr, bookId |-> bookId]

\* new CalibreNotFoundError(): an Error, not a CalibreError; it has neither
\* a command nor a stderr property
CalibreNotFoundError ==
  [name |-> "CalibreNotFoundError",
   message |-> <<"calibredb executable not found">>]

\* new LibraryNotFoundError(libraryPath, command, stderr)
LibraryNotFoundError(libraryPath, command, stderr) ==
  [name |-> "LibraryNotFoundError",
   message |-> <<"Library not found at path: ", libraryPath>>,
   command |-> command, stderr |-> stderr, libraryPath |-> libraryPath]

\* error.stderr and error.command as a caller reads them
StderrOf(e) == IF Has(e, "stderr") THEN e.stderr ELSE UndefinedText

CommandOf(e) == IF Has(e, "command") THEN e.command ELSE UndefinedString

-----------------------------------------------------------------------------
(* core/exec.ts: the argument vector                                        *)

FOR_MACHINE == "--for-machine"

LIBRARY_PATH == "--library-path"

\* const { calibreBin = "calibredb" } = options
calibreBin(options) ==
  IF Has(options, "calibreBin") THEN options.calibreBin ELSE "calibredb"

\* execArgs of execCalibre, src/src/core/exec.ts
execArgsCore(command, args, options) ==
  <<command>>
    \o (IF TruthyStr(options, "libraryPath")
          THEN <<LIBRARY_PATH, options.libraryPath>> ELSE << >>)
    \o (IF TruthyBool(options, "forMachine") THEN <<FOR_MACHINE>> ELSE << >>)
    \o args

\* execArgs of execCalibre, src/unnamed/part_002:
\* options.forMachine is not read
execArgsPart002(command, args, options) ==
  <<command>>
    \o (IF TruthyStr(options, "libraryPath")
          THEN <<LIBRARY_PATH, options.libraryPath>> ELSE << >>)
    \o args

execArgs(mod, command, args, options) ==
  IF mod = "core" THEN execArgsCore(command, args, options)
                  ELSE execArgsPart002(command, args, options)

\* calibreBin as execCalibreStream destructures it
calibreBinStream(options) ==
  IF Has(options, "calibreBin") THEN options.calibreBin ELSE "calibredb"

\* execArgs of execCalibreStream with options.forMachine left unread
execArgsStreamNoForMachine(command, args, options) ==
  <<command>>
    \o (IF TruthyStr(options, "libraryPath")
          THEN <<LIBRARY_PATH, options.libraryPath>> ELSE << >>)
    \o args

\* execArgs of execCalibreStream, src/src/core/exec.ts
execArgsStreamCore(command, args, options) ==
  <<command>>
    \o (IF TruthyStr(options, "libraryPath")
          THEN <<LIBRARY_PATH, options.libraryPath>> ELSE << >>)
    \o (IF TruthyBool(options, "forMachine") THEN <<FOR_MACHINE>> ELSE << >>)
    \o args

\* execArgs of execCalibreStream, src/unnamed/part_002
execArgsStreamPart002(command, args, options) ==
  <<command>>
    \o (IF TruthyStr(options, "libraryPath")
          THEN <<LIBRARY_PATH, options.libraryPath>> ELSE << >>)
    \o args

execArgsStream(mod, command, args, options) ==
  IF mod = "core" THEN execArgsStreamCore(command, args, options)
                  ELSE execArgsStreamPart002(command, args, options)

\* jsonCall with the caller's options passed on as they are
jsonCallUnforced(mod, args, options) ==
  IF mod = "core"
    THEN [args |-> args, options |-> options]
    ELSE [args |-> Append(args, FOR_MACHINE), options |-> options]

\* What execCalibreJson hands to execCalibre: <<args, options>>.
\* core: a fresh options object with forMachine forced, args untouched.
\* part_002: args.push("--for-machine") on the caller's array, options as is.
jsonCall(mod, args, options) ==
  IF mod = "core"
    THEN [args |-> args, options |-> Spread(options, "forMachine", TRUE)]
    ELSE [args |-> Append(args, FOR_MACHINE), options |-> options]

\* The caller's args array after execCalibreJson has run
jsonCallerArgs(mod, args) ==
  IF mod = "core" THEN args ELSE Append(args, FOR_MACHINE)

-----------------------------------------------------------------------------
(* Scanning helpers                                                         *)

Min(S) == CHOOSE x \in S : \A y \in S : x <= y

Max(S) == CHOOSE x \in S : \A y \in S : x >= y

\* [:\s] of the library-path pattern
IsPathSeparator(ch) == ch = ":" \/ IsSpace(ch)

\* The character classes of the patterns: \s, \d, [^\s], ".", [:\s]
InClass(ch, class) ==
  CASE class = "space" -> IsSpace(ch)
    [] class = "digit" -> IsDigit(ch)
    [] class = "notspace" -> ~IsSpace(ch)
    [] class = "dot" -> ~IsLineTerminator(ch)
    [] class = "pathsep" -> IsPathSeparator(ch)

\* The index after the longest run of characters of a class from i on
RECURSIVE RunEnd(_, _, _)
RunEnd(s, i, class) ==
  IF i <= Len(s) /\ InClass(s[i], class) THEN RunEnd(s, i + 1, class) ELSE i

\* The number a run of decimal digits denotes
RECURSIVE DigitsValue(_)
DigitsValue(d) ==
  IF d = << >> THEN 0
  ELSE 10 * DigitsValue(SubSeq(d, 1, Len(d) - 1)) + DigitValue(d[Len(d)])

\* String.prototype.trim
trim(s) ==
  LET keep == {i \in 1..Len(s) : ~IsSpace(s[i])}
  IN IF keep = {} THEN << >> ELSE SubSeq(s, Min(keep), Max(keep))

\* String.prototype.split(",")
RECURSIVE split(_)
split(s) ==
  LET commas == {i \in 1..Len(s) : s[i] = ","}
  IN IF commas = {} THEN <<s>>
     ELSE <<SubSeq(s, 1, Min(commas) - 1)>>
            \o split(SubSeq(s, Min(commas) + 1, Len(s)))

\* parseInt(s, 10): leading white space, an optional sign, then the longest
\* run of digits; what follows the digits is ignored; no digit is NaN
parseInt(s) ==
  LET i == RunEnd(s, 1, "space")
      signed == i <= Len(s) /\ s[i] \in {"+", "-"}
      j == IF signed THEN i + 1 ELSE i
      k == RunEnd(s, j, "digit")
      n == DigitsValue(SubSeq(s, j, k - 1))
  IN IF k = j THEN [nan |-> TRUE, n |-> 0]
     ELSE [nan |-> FALSE, n |-> IF signed /\ s[i] = "-" THEN 0 - n ELSE n]

-----------------------------------------------------------------------------
(* JSON.parse, for the JSON texts of this model: null, a number, or an     *)
(* array of numbers, with white space between the tokens.  Any other text  *)
(* raises.                                                                  *)

JsonNull == [type |-> "null"]

JsonNumber(n) == [type |-> "number", n |-> n]

JsonArray(items) == [type |-> "array", items |-> items]

JsonError == [ok |-> FALSE]

\* A number token at i: digits, no leading zero
jsonNumberAt(s, i) ==
  LET k == RunEnd(s, i, "digit")
  IN IF k = i \/ (s[i] = "0" /\ k > i + 1)
       THEN [ok |-> FALSE]
       ELSE [ok |-> TRUE, n |-> DigitsValue(SubSeq(s, i, k - 1)), next |-> k]

\* The elements of an array from i on, "[" and one or more elements read
RECURSIVE jsonElements(_, _, _)
jsonElements(s, i, items) ==
  LET num == jsonNumberAt(s, i)
  IN IF i > Len(s) \/ ~num.ok THEN [ok |-> FALSE]
     ELSE LET j == RunEnd(s, num.next, "space")
          IN IF j > Len(s) THEN [ok |-> FALSE]
             ELSE IF s[j] = "]"
               THEN [ok |-> TRUE, items |-> Append(items, num.n), next |-> j + 1]
             ELSE IF s[j] = ","
               THEN jsonElements(s, RunEnd(s, j + 1, "space"),
                                 Append(items, num.n))
             ELSE [ok |-> FALSE]

\* The value that starts at i
jsonValueAt(s, i) ==
  IF i > Len(s) THEN [ok |-> FALSE]
  ELSE IF s[i] = "["
    THEN LET j == RunEnd(s, i + 1, "space")
         IN IF j <= Len(s) /\ s[j] = "]"
              THEN [ok |-> TRUE, value |-> JsonArray(<< >>), next |-> j + 1]
              ELSE LET e == jsonElements(s, j, << >>)
                   IN IF e.ok
                        THEN [ok |-> TRUE, value |-> JsonArray(e.items),
                              next |-> e.next]
                        ELSE [ok |-> FALSE]
  ELSE IF StartsWithAt(s, <<"n", "u", "l", "l">>, i)
    THEN [ok |-> TRUE, value |-> JsonNull, next |-> i + 4]
  ELSE LET num == jsonNumberAt(s, i)
       IN IF num.ok
            THEN [ok |-> TRUE, value |-> JsonNumber(num.n), next |-> num.next]
            ELSE [ok |-> FALSE]

\* JSON.parse(s): [ok |-> TRUE, value |-> v], or JsonError for a SyntaxError
JSON_parse(s) ==
  LET v == jsonValueAt(s, RunEnd(s, 1, "space"))
  IN IF v.ok /\ RunEnd(s, v.next, "space") > Len(s)
       THEN [ok |-> TRUE, value |-> v.value]
       ELSE JsonError

-----------------------------------------------------------------------------
(* core/errors.ts: determineErrorType                                       *)

\* bookId of a BookNotFoundError: number | string
BookIdNumber(n) == [type |-> "number", n |-> n]

BookIdUnknown == [type |-> "string", s |-> "unknown"]

\* errorMessage.match(/id: (\d+)/): the first index with "id: " and a digit
\* after it, and the digits; matched |-> FALSE for null
idMatch(errorMessage) ==
  LET at == {i \in 1..Len(errorMessage) :
               /\ StartsWithAt(errorMessage, <<"i", "d", ":", " ">>, i)
               /\ i + 4 <= Len(errorMessage)
               /\ IsDigit(errorMessage[i + 4])}
  IN IF at = {} THEN [matched |-> FALSE]
     ELSE LET i == Min(at)
          IN [matched |-> TRUE,
              group1 |-> SubSeq(errorMessage, i + 4,
                                RunEnd(errorMessage, i + 4, "digit") - 1)]

\* The start of the captured token when /path[:\s]+([^\s]+)/i matches with
\* "path" at i, 0 when it does not: the separators are taken greedily and
\* given back one at a time until a character that is not white space
\* follows them
pathTokenStart(errorMessage, i) ==
  LET sepEnd == RunEnd(errorMessage, i + 4, "pathsep")
      starts == {j \in (i + 5)..sepEnd :
                   j <= Len(errorMessage) /\ ~IsSpace(errorMessage[j])}
  IN IF StartsWithAt(toLowerCase(errorMessage), <<"p", "a", "t", "h">>, i) /\ starts # {}
       THEN Max(starts) ELSE 0

\* errorMessage.match(/path[:\s]+([^\s]+)/i)
pathMatch(errorMessage) ==
  LET at == {i \in 1..Len(errorMessage) : pathTokenStart(errorMessage, i) > 0}
  IN IF at = {} THEN [matched |-> FALSE]
     ELSE LET j == pathTokenStart(errorMessage, Min(at))
          IN [matched |-> TRUE,
              group1 |-> SubSeq(errorMessage, j,
                                RunEnd(errorMessage, j, "notspace") - 1)]

\* determineErrorType with the phrases searched in errorMessage, the
\* executable-missing phrases first when toolFirst, and a failed extraction
\* falling through to the generic error unless sentinel
determineErrorTypeVariant(command, stderr, errorMessage, toolFirst, sentinel) ==
  LET book == \/ includes(errorMessage, <<"n", "o", " ", "b", "o", "o", "k", " ", "w", "i", "t", "h", " ", "i", "d">>)
              \/ includes(errorMessage, <<"b", "o", "o", "k", " ", "n", "o", "t", " ", "f", "o", "u", "n", "d">>)
      library == \/ includes(errorMessage, <<"l", "i", "b", "r", "a", "r", "y", " ", "n", "o", "t", " ", "f", "o", "u", "n", "d">>)
                 \/ includes(errorMessage, <<"c", "a", "n", "n", "o", "t", " ", "f", "i", "n", "d", " ", "l", "i", "b", "r", "a", "r", "y">>)
      tool == \/ includes(errorMessage, <<"c", "o", "m", "m", "a", "n", "d", " ", "n", "o", "t", " ", "f", "o", "u", "n", "d">>)
              \/ includes(errorMessage, <<"c", "a", "l", "i", "b", "r", "e", "d", "b", ":", " ", "n", "o", "t", " ", "f", "o", "u", "n", "d">>)
      id == idMatch(errorMessage)
      path == pathMatch(errorMessage)
      generic == CalibreError(<<"Error executing calibredb ", command>>,
                              command, stderr)
  IN IF toolFirst /\ tool THEN CalibreNotFoundError
     ELSE IF book /\ (id.matched \/ sentinel)
       THEN BookNotFoundError(
              IF id.matched THEN BookIdNumber(parseInt(id.group1).n)
                            ELSE BookIdUnknown, command, stderr)
     ELSE IF ~book /\ library /\ (path.matched \/ sentinel)
       THEN LibraryNotFoundError(
              IF path.matched THEN path.group1 ELSE <<"u", "n", "k", "n", "o", "w", "n">>,
              command, stderr)
     ELSE IF ~book /\ ~library /\ tool THEN CalibreNotFoundError
     ELSE generic

\* determineErrorType with the executable-missing phrases checked first
determineErrorTypeToolFirst(command, stderr) ==
  determineErrorTypeVariant(command, stderr, toLowerCase(stderr), TRUE, TRUE)

\* determineErrorType that gives up when it cannot extract the detail
determineErrorTypeNoSentinel(command, stderr) ==
  determineErrorTypeVariant(command, stderr, toLowerCase(stderr), FALSE, FALSE)

\* determineErrorType without the toLowerCase
determineErrorTypeCaseSensitive(command, stderr) ==
  determineErrorTypeVariant(command, stderr, stderr, FALSE, TRUE)

\* determineErrorType(error, command, stderr); the error argument is not read
determineErrorType(command, stderr) ==
  LET errorMessage == toLowerCase(stderr)
  IN IF \/ includes(errorMessage, <<"n", "o", " ", "b", "o", "o", "k", " ", "w", "i", "t", "h", " ", "i", "d">>)
        \/ includes(errorMessage, <<"b", "o", "o", "k", " ", "n", "o", "t", " ", "f", "o", "u", "n", "d">>)
       THEN LET m == idMatch(errorMessage)
                bookId == IF m.matched
                            THEN BookIdNumber(parseInt(m.group1).n)
                            ELSE BookIdUnknown
            IN BookNotFoundError(bookId, command, stderr)
     ELSE IF \/ includes(errorMessage, <<"l", "i", "b", "r", "a", "r", "y", " ", "n", "o", "t", " ", "f", "o", "u", "n", "d">>)
             \/ includes(errorMessage, <<"c", "a", "n", "n", "o", "t", " ", "f", "i", "n", "d", " ", "l", "i", "b", "r", "a", "r", "y">>)
       THEN LET m == pathMatch(errorMessage)
                libraryPath == IF m.matched THEN m.group1 ELSE <<"u", "n", "k", "n", "o", "w", "n">>
            IN LibraryNotFoundError(libraryPath, command, stderr)
     ELSE IF \/ includes(errorMessage, <<"c", "o", "m", "m", "a", "n", "d", " ", "n", "o", "t", " ", "f", "o", "u", "n", "d">>)
             \/ includes(errorMessage, <<"c", "a", "l", "i", "b", "r", "e", "d", "b", ":", " ", "n", "o", "t", " ", "f", "o", "u", "n", "d">>)
       THEN CalibreNotFoundError
     ELSE CalibreError(<<"Error executing calibredb ", command>>,
                       command, stderr)

-----------------------------------------------------------------------------
(* commands/add.ts: the identifiers in the output of calibredb add          *)

\* The start of the captured text when /Added book ids?: (.+)/i matches at
\* i, 0 when it does not
addedIdsStart(output, i) ==
  LET low == toLowerCase(output)
      j == IF StartsWithAt(low, <<"a", "d", "d", "e", "d", " ", "b", "o", "o", "k", " ", "i", "d", "s", ":", " ">>, i) THEN i + 16
           ELSE IF StartsWithAt(low, <<"a", "d", "d", "e", "d", " ", "b", "o", "o", "k", " ", "i", "d", ":", " ">>, i) THEN i + 15
           ELSE 0
  IN IF j > 0 /\ j <= Len(output) /\ ~IsLineTerminator(output[j])
       THEN j ELSE 0

\* output.match(/Added book ids?: (.+)/i)
addedIdsMatch(output) ==
  LET at == {i \in 1..Len(output) : addedIdsStart(output, i) > 0}
  IN IF at = {} THEN [matched |-> FALSE]
     ELSE LET j == addedIdsStart(output, Min(at))
          IN [matched |-> TRUE,
              group1 |-> SubSeq(output, j, RunEnd(output, j, "dot") - 1)]

\* .split(",").map(trim).filter(nonempty).map(parseInt).filter(not NaN)
RECURSIVE parseIds(_)
parseIds(tokens) ==
  IF tokens = << >> THEN << >>
  ELSE LET id == trim(Head(tokens))
           n == parseInt(id)
       IN (IF Len(id) > 0 /\ ~n.nan THEN <<n.n>> ELSE << >>)
            \o parseIds(Tail(tokens))

\* What add returns for the output of a process that exited zero
addResult(output) ==
  LET match == addedIdsMatch(output)
  IN IF match.matched /\ Truthy(match.group1)
       THEN parseIds(split(match.group1))
       ELSE << >>

-----------------------------------------------------------------------------
(* The command adapters: the arguments each builds                          *)

\* Number.prototype.toString of a non-negative integer
RECURSIVE NumberToString(_)
NumberToString(n) ==
  IF n < 10 THEN DigitChars[n + 1]
  ELSE NumberToString(n \div 10) \o DigitChars[(n % 10) + 1]

\* Array.prototype.join(",") of an array of strings
RECURSIVE join(_)
join(a) ==
  IF a = << >> THEN ""
  ELSE IF Len(a) = 1 THEN a[1]
  ELSE a[1] \o "," \o join(Tail(a))

\* ["--flag", options.k] when options.k is a non-empty string
StrFlag(options, k, flag) ==
  IF TruthyStr(options, k) THEN <<flag, options[k]>> ELSE << >>

\* ["--flag"] when options.k is true
BoolFlag(options, k, flag) ==
  IF TruthyBool(options, k) THEN <<flag>> ELSE << >>

\* options.identifiers.forEach(id => args.push("--identifier", id))
RECURSIVE identifierFlags(_)
identifierFlags(ids) ==
  IF ids = << >> THEN << >>
  ELSE <<"--identifier", Head(ids)>> \o identifierFlags(Tail(ids))

\* args of add with the paths pushed before the options
addArgsPathsFirst(paths, options) ==
  paths
    \o StrFlag(options, "automerge", "--automerge")
    \o BoolFlag(options, "allowDuplicates", "--duplicates")
    \o BoolFlag(options, "recursive", "--recurse")
    \o BoolFlag(options, "oneBookPerDirectory", "--one-book-per-directory")
    \o BoolFlag(options, "empty", "--empty")
    \o StrFlag(options, "author", "--author")
    \o StrFlag(options, "title", "--title")
    \o (IF Has(options, "tags") /\ Len(options.tags) > 0
          THEN <<"--tags", join(options.tags)>> ELSE << >>)
    \o StrFlag(options, "series", "--series")
    \o (IF Has(options, "seriesIndex")
          THEN <<"--series-index", NumberToString(options.seriesIndex)>>
          ELSE << >>)
    \o StrFlag(options, "isbn", "--isbn")
    \o (IF Has(options, "identifiers")
          THEN identifierFlags(options.identifiers) ELSE << >>)
    \o (IF Has(options, "languages")
          THEN <<"--languages", join(options.languages)>> ELSE << >>)

\* args of add, src/src/commands/add.ts
addArgs(paths, options) ==
  StrFlag(options, "automerge", "--automerge")
    \o BoolFlag(options, "allowDuplicates", "--duplicates")
    \o BoolFlag(options, "recursive", "--recurse")
    \o BoolFlag(options, "oneBookPerDirectory", "--one-book-per-directory")
    \o BoolFlag(options, "empty", "--empty")
    \o StrFlag(options, "author", "--author")
    \o StrFlag(options, "title", "--title")
    \o (IF Has(options, "tags") /\ Len(options.tags) > 0
          THEN <<"--tags", join(options.tags)>> ELSE << >>)
    \o StrFlag(options, "series", "--series")
    \o (IF Has(options, "seriesIndex")
          THEN <<"--series-index", NumberToString(options.seriesIndex)>>
          ELSE << >>)
    \o StrFlag(options, "isbn", "--isbn")
    \o (IF Has(options, "identifiers")
          THEN identifierFlags(options.identifiers) ELSE << >>)
    \o (IF Has(options, "languages")
          THEN <<"--languages", join(options.languages)>> ELSE << >>)
    \o paths

\* args of list
listArgs(options) ==
  (IF Has(options, "fields") /\ Len(options.fields) > 0
     THEN <<"--fields", join(options.fields)>> ELSE << >>)
    \o StrFlag(options, "search", "--search")
    \o (IF Has(options, "limit")
          THEN <<"--limit", NumberToString(options.limit)>> ELSE << >>)
    \o (IF TruthyStr(options, "sortBy")
          THEN <<"--sort-by",
                 (IF Has(options, "sortOrder") /\ options.sortOrder = "DESC"
                    THEN "-" ELSE "") \o options.sortBy>>
          ELSE << >>)

\* bookIds.map(id => id.toString())
RECURSIVE idStrings(_)
idStrings(bookIds) ==
  IF bookIds = << >> THEN << >>
  ELSE <<NumberToString(Head(bookIds))>> \o idStrings(Tail(bookIds))

\* args of remove with --permanent pushed whenever the property is set
removeArgsPermanentSet(bookIds, options) ==
  idStrings(bookIds)
    \o (IF Has(options, "permanent") THEN <<"--permanent">> ELSE << >>)

\* args of remove
removeArgs(bookIds, options) ==
  idStrings(bookIds) \o BoolFlag(options, "permanent", "--permanent")

-----------------------------------------------------------------------------
(* core/exec.ts: how a call settles once its process has exited            *)

Resolved(value) == [kind |-> "resolved", value |-> value]

Rejected(error) == [kind |-> "rejected", error |-> error]

\* The promise of a call that has not settled
Pending == [kind |-> "pending"]

\* The child process object execCalibreStream returns
Handle == [kind |-> "handle"]

StringValue(text) == [type |-> "string", text |-> text]

Undefined == [type |-> "undefined"]

NoErrorOutput == <<"N", "o", " ", "e", "r", "r", "o", "r", " ", "o", "u", "t", "p", "u", "t", " ", "a", "v", "a", "i", "l", "a", "b", "l", "e">>

\* The error execa rejects with when the process exits non-zero
ExecaError(exitCode, stdout, stderr) ==
  [name |-> "ExecaError", message |-> <<"execaError.message">>,
   exitCode |-> exitCode, stdout |-> stdout, stderr |-> stderr]

\* errorOutput with the standard output preferred
errorOutputStdoutFirst(stdout, stderr) ==
  IF Truthy(stdout) THEN stdout
  ELSE IF Truthy(stderr) THEN stderr
  ELSE NoErrorOutput

\* execaError.stderr || execaError.stdout || "No error output available"
errorOutput(stdout, stderr) ==
  IF Truthy(stderr) THEN stderr
  ELSE IF Truthy(stdout) THEN stdout
  ELSE NoErrorOutput

\* execCalibreSettle that hands back the output of a failed process
execCalibreSettleLenient(command, exitCode, stdout, stderr) ==
  Resolved(StringValue(stdout))

\* execCalibre after the await: the same in both generations.  Every
\* rejection of execa is an Error, so the re-throw branch is never taken.
execCalibreSettle(command, exitCode, stdout, stderr) ==
  IF exitCode = 0
    THEN Resolved(StringValue(stdout))
    ELSE Rejected(CalibreError(
           <<"Failed to execute calibredb ", command, ": ",
             "execaError.message">>,
           command, errorOutput(stdout, stderr)))

\* execCalibreJsonSettle with the decode failure swallowed
execCalibreJsonSettleNull(command, r) ==
  IF r.kind = "rejected" THEN r
  ELSE LET parsed == JSON_parse(r.value.text)
       IN IF parsed.ok THEN Resolved(parsed.value) ELSE Resolved(JsonNull)

\* execCalibreJson after execCalibre has settled with r
execCalibreJsonSettle(command, r) ==
  IF r.kind = "rejected" THEN r
  ELSE LET output == r.value.text
           parsed == JSON_parse(output)
       IN IF parsed.ok
            THEN Resolved(parsed.value)
            ELSE Rejected(CalibreError(
                   <<"Failed to parse JSON output from calibredb ", command>>,
                   command, output))

\* What awaiting the object execa returns yields: an async function that
\* returns it resolves with its result, or rejects with its error as is
execaSettle(exitCode, stdout, stderr) ==
  IF exitCode = 0
    THEN Resolved([type |-> "execaResult", stdout |-> stdout,
                   stderr |-> stderr])
    ELSE Rejected(ExecaError(exitCode, stdout, stderr))

\* addSettle with a missing confirmation line treated as a failure
addSettleStrict(r) ==
  IF r.kind = "rejected" THEN r
  ELSE IF ~addedIdsMatch(r.value.text).matched
    THEN Rejected(CalibreError(<<"No confirmation line">>, "add",
                               r.value.text))
    ELSE Resolved(JsonArray(addResult(r.value.text)))

\* add after execCalibre has settled with r
addSettle(r) ==
  IF r.kind = "rejected" THEN r
  ELSE Resolved(JsonArray(addResult(r.value.text)))

\* ids.length > 0 ? ids[0] : null
firstOrNull(r) ==
  IF r.kind = "rejected" THEN r
  ELSE IF r.value.type = "array" /\ Len(r.value.items) > 0
    THEN Resolved(JsonNumber(r.value.items[1]))
    ELSE Resolved(JsonNull)

\* getBookById after list has settled with r:
\* books.length > 0 ? books[0] : null; reading length of null throws
bookOrNull(r) ==
  IF r.kind = "rejected" THEN r
  ELSE IF r.value.type = "null"
    THEN Rejected([name |-> "TypeError",
                   message |-> <<"Cannot read properties of null">>])
  ELSE IF r.value.type = "array" /\ Len(r.value.items) > 0
    THEN Resolved(JsonNumber(r.value.items[1]))
    ELSE Resolved(JsonNull)

\* remove after execCalibre has settled with r: the output is dropped
removeSettle(r) ==
  IF r.kind = "rejected" THEN r ELSE Resolved(Undefined)

-----------------------------------------------------------------------------
(* What each public operation asks of the invoker: the command, the args   *)
(* and options it passes on, and the entry point it calls (strategy)       *)

Plan(command, args, options, strategy) ==
  [command |-> command, args |-> args, options |-> options,
   strategy |-> strategy]

\* add(paths, options): execCalibreStream when options.stream, else
\* execCalibre
addPlan(paths, options) ==
  Plan("add", addArgs(paths, options), options,
       IF TruthyBool(options, "stream") THEN "asyncStream" ELSE "text")

\* list(options): execCalibreJson with forMachine forced
listPlan(options) ==
  Plan("list", listArgs(options), Spread(options, "forMachine", TRUE), "json")

\* remove(bookIds, options)
removePlan(bookIds, options) ==
  Plan("remove", removeArgs(bookIds, options), options, "text")

PlanOf(api, in) ==
  CASE api = "execCalibre" -> Plan(in.command, in.args, in.options, "text")
    [] api = "execCalibreJson" -> Plan(in.command, in.args, in.options, "json")
    [] api = "execCalibreStream" ->
         Plan(in.command, in.args, in.options, "stream")
    [] api = "list" -> listPlan(in.options)
    [] api = "search" ->
         listPlan(Spread(in.options, "search", in.searchExpression))
    [] api = "getBookById" ->
         listPlan(Spread(in.options, "search",
                         "id:" \o NumberToString(in.id)))
    [] api = "add" -> addPlan(in.paths, in.options)
    [] api = "addBook" -> addPlan(<<in.path>>, in.options)
    [] api = "addEmptyBook" ->
         addPlan(<< >>, Spread(in.options, "empty", TRUE))
    [] api = "addDirectory" ->
         addPlan(<<in.directoryPath>>, Spread(in.options, "recursive", TRUE))
    [] api = "remove" -> removePlan(in.bookIds, in.options)
    [] api = "removeBook" -> removePlan(<<in.bookId>>, in.options)
    [] api = "removePermanently" ->
         removePlan(in.bookIds, Spread(in.options, "permanent", TRUE))

-----------------------------------------------------------------------------
(* State                                                                    *)

\* calls[c]: one call of a public operation.
\*   pc         "idle", "awaiting" (suspended at the await on execa) or
\*              "settled"
\*   mod        the generation of core/exec.ts the call runs
\*   api, in    the operation and the caller's arguments as passed
\*   callerArgs the caller's args array as it is now (execCalibre* only)
\*   argsOf     the earlier call that was passed the same args array, or
\*              "none" when the array was passed to no call before
\*   command, strategy   of the plan
\*   bin, execArgs       what was handed to execa
\*   spawned    the number of child processes started
\*   procState  "none", "running" or "exited"
\*   exitCode, stdout, stderr   of the exited process
\*   outcome    what the caller holds
IdleCall ==
  [pc |-> "idle", mod |-> "core", api |-> "none", in |-> EmptyObject,
   callerArgs |-> << >>, argsOf |-> "none", command |-> "",
   strategy |-> "none",
   bin |-> "", execArgs |-> << >>, spawned |-> 0,
   procState |-> "none", exitCode |-> 0, stdout |-> << >>, stderr |-> << >>,
   outcome |-> Pending]

\* The call after the synchronous part of the operation: execa has been
\* called once with the argument vector
Started(mod, api, in) ==
  LET plan == PlanOf(api, in)
      json == plan.strategy = "json"
      streams == plan.strategy \in {"stream", "asyncStream"}
      handed == IF json THEN jsonCall(mod, plan.args, plan.options)
                ELSE [args |-> plan.args, options |-> plan.options]
  IN [IdleCall EXCEPT
        !.pc = IF plan.strategy = "stream" THEN "settled" ELSE "awaiting",
        !.mod = mod, !.api = api, !.in = in,
        !.callerArgs =
           IF ~Has(in, "args") THEN << >>
           ELSE IF json THEN jsonCallerArgs(mod, in.args) ELSE in.args,
        !.command = plan.command, !.strategy = plan.strategy,
        !.bin = IF streams THEN calibreBinStream(handed.options)
                ELSE calibreBin(handed.options),
        !.execArgs =
           IF streams
             THEN execArgsStream(mod, plan.command, handed.args,
                                 handed.options)
             ELSE execArgs(mod, plan.command, handed.args, handed.options),
        !.spawned = 1, !.procState = "running",
        !.outcome = IF plan.strategy = "stream" THEN Handle ELSE Pending]

\* The error addEmptyBook throws before it calls add
TitleRequired ==
  [name |-> "Error", message |-> <<"Title is required for an empty book">>]

\* The outcome of an awaiting call whose process has exited
Outcome(call) ==
  LET text == execCalibreSettle(call.command, call.exitCode,
                                call.stdout, call.stderr)
      added == IF call.strategy = "asyncStream"
                 THEN execaSettle(call.exitCode, call.stdout, call.stderr)
                 ELSE addSettle(text)
  IN CASE call.api = "execCalibre" -> text
       [] call.api \in {"execCalibreJson", "list", "search"} ->
            execCalibreJsonSettle(call.command, text)
       [] call.api = "getBookById" ->
            bookOrNull(execCalibreJsonSettle(call.command, text))
       [] call.api \in {"add", "addDirectory"} -> added
       [] call.api \in {"addBook", "addEmptyBook"} -> firstOrNull(added)
       [] call.api \in {"remove", "removeBook", "removePermanently"} ->
            removeSettle(text)

-----------------------------------------------------------------------------
(* The inputs                                                               *)

\* The greatest number of fragments in an error text handed to the classifier
MaxFragments == 3

CallIds == {"c1"}

Mods == {"core", "part_002"}

Commands == {"list", "add", "remove"}

ArgLists == {<< >>, <<"--search", "title:x">>}

\* { ...a, ...b }
Merge(a, b) ==
  [k \in DOMAIN a \cup DOMAIN b |-> IF k \in DOMAIN b THEN b[k] ELSE a[k]]

LibraryPathChoices ==
  {EmptyObject, [libraryPath |-> ""], [libraryPath |-> "/lib"]}

CalibreBinChoices == {EmptyObject, [calibreBin |-> "/opt/calibredb"]}

ForMachineChoices ==
  {EmptyObject, [forMachine |-> FALSE], [forMachine |-> TRUE]}

\* CalibreOptions objects
CalibreOptions ==
  {Merge(Merge(l, b), f) : l \in LibraryPathChoices,
                            b \in CalibreBinChoices, f \in ForMachineChoices}

\* ListOptions objects
ListOptions ==
  {Merge(o, l) :
     o \in {EmptyObject,
            [fields |-> <<"title", "authors">>],
            [fields |-> << >>, search |-> "title:x"],
            [limit |-> 10],
            [sortBy |-> "title"],
            [sortBy |-> "title", sortOrder |-> "ASC"],
            [sortBy |-> "title", sortOrder |-> "DESC"],
            [sortOrder |-> "DESC"],
            [fields |-> <<"id">>, search |-> "id:7", limit |-> 1,
             sortBy |-> "id", sortOrder |-> "DESC"]},
     l \in {EmptyObject, [libraryPath |-> "/lib"], [forMachine |-> FALSE],
            [calibreBin |-> "/opt/calibredb", forMachine |-> TRUE]}}

\* Omit<ListOptions, "search"> objects
SearchlessListOptions == {o \in ListOptions : ~Has(o, "search")}

PathLists == {<< >>, <<"a.epub">>, <<"a.epub", "b.epub">>}

\* AddOptions objects
AddOptions ==
  {EmptyObject,
   [libraryPath |-> "/lib"],
   [allowDuplicates |-> TRUE],
   [allowDuplicates |-> FALSE, recursive |-> TRUE, oneBookPerDirectory |-> TRUE],
   [title |-> "T", author |-> "A"],
   [title |-> "", tags |-> <<"x", "y">>],
   [title |-> "T", tags |-> << >>, series |-> "S", seriesIndex |-> 2,
    isbn |-> "123", identifiers |-> <<"isbn:1", "doi:2">>,
    languages |-> <<"en", "fr">>, automerge |-> "overwrite"],
   [forMachine |-> TRUE],
   [stream |-> TRUE],
   [stream |-> TRUE, title |-> "T", libraryPath |-> "/lib"],
   [stream |-> FALSE, empty |-> TRUE, calibreBin |-> "/opt/calibredb"]}

BookIdLists == {<< >>, <<7>>, <<7, 42>>, <<42, 7, 100>>}

\* RemoveOptions objects
RemoveOptions ==
  {EmptyObject, [permanent |-> TRUE], [permanent |-> FALSE],
   [libraryPath |-> "/lib", permanent |-> TRUE], [forMachine |-> TRUE]}

\* What a process can end with: its exit code and the two captured texts
ProcessResults ==
  {[exitCode |-> 0, stdout |-> o, stderr |-> e] :
     o \in {<< >>, <<"[", "]">>, <<"[", "1", ",", " ", "2", "]">>, <<"[", "1", ",">>, <<"n", "u", "l", "l">>, <<"[", "7", "]", " ", "x">>,
            <<"A", "d", "d", "e", "d", " ", "b", "o", "o", "k", " ", "i", "d", "s", ":", " ", "1", ",", " ", "2">>, <<"M", "e", "r", "g", "e", "d", "\n", "a", "d", "d", "e", "d", " ", "B", "O", "O", "K", " ", "i", "d", ":", " ", "3", "\n">>,
            <<"A", "d", "d", "e", "d", " ", "b", "o", "o", "k", " ", "i", "d", "s", ":", " ", "4", ",", " ", "x", ",", " ", "5", "y">>, <<"A", "d", "d", "e", "d", " ", "b", "o", "o", "k", " ", "i", "d", "s", ":", " ", "\n">>,
            <<"N", "o", " ", "b", "o", "o", "k", "s", " ", "a", "d", "d", "e", "d">>},
     e \in {<< >>, <<"w", "a", "r", "n", "i", "n", "g">>}}
  \cup
  {[exitCode |-> 1, stdout |-> o, stderr |-> e] :
     o \in {<< >>, <<"A", "d", "d", "e", "d", " ", "b", "o", "o", "k", " ", "i", "d", "s", ":", " ", "7">>, <<"[", "1", "]">>},
     e \in {<< >>, <<"N", "o", " ", "b", "o", "o", "k", " ", "w", "i", "t", "h", " ", "i", "d", ":", " ", "4", "2">>,
            <<"E", "r", "r", "o", "r", ":", " ", "L", "i", "b", "r", "a", "r", "y", " ", "n", "o", "t", " ", "f", "o", "u", "n", "d", " ", "a", "t", " ", "p", "a", "t", "h", ":", " ", "/", "L", "i", "b", "/", "A">>,
            <<"s", "h", ":", " ", "c", "a", "l", "i", "b", "r", "e", "d", "b", ":", " ", "n", "o", "t", " ", "f", "o", "u", "n", "d">>, <<"T", "r", "a", "c", "e", "b", "a", "c", "k">>}}

\* The pieces error texts are made of
Fragments ==
  {<<"N", "o", " ", "b", "o", "o", "k", " ", "w", "i", "t", "h", " ", "i", "d">>, <<"b", "o", "o", "k", " ", "n", "o", "t", " ", "f", "o", "u", "n", "d">>, <<"L", "i", "b", "r", "a", "r", "y", " ", "n", "o", "t", " ", "f", "o", "u", "n", "d">>,
   <<"c", "a", "n", "n", "o", "t", " ", "f", "i", "n", "d", " ", "l", "i", "b", "r", "a", "r", "y">>, <<"c", "o", "m", "m", "a", "n", "d", " ", "n", "o", "t", " ", "f", "o", "u", "n", "d">>, <<"c", "a", "l", "i", "b", "r", "e", "d", "b", ":", " ", "n", "o", "t", " ", "f", "o", "u", "n", "d">>,
   <<":", " ", "4", "2">>, <<" ", "a", "t", " ", "P", "a", "t", "h", ":", " ", "/", "L", "i", "b", "/", "A">>, <<" ", "P", "A", "T", "H", " ">>, <<"E", "r", "r", "o", "r", ":", " ">>}

\* The texts of n fragments or fewer
RECURSIVE TextsUpTo(_)
TextsUpTo(n) ==
  IF n = 0 THEN {<< >>}
  ELSE LET shorter == TextsUpTo(n - 1)
       IN shorter \cup {t \o f : t \in shorter, f \in Fragments}

ErrorTexts == TextsUpTo(MaxFragments)

-----------------------------------------------------------------------------
(* The operations                                                           *)

NotClassified == [done |-> FALSE]

Init ==
  /\ calls = [c \in CallIds |-> IdleCall]
  /\ classified = NotClassified

\* The operation api runs with the arguments in, up to its await
Call(c, mod, api, in) ==
  /\ calls' = [calls EXCEPT ![c] = Started(mod, api, in)]
  /\ UNCHANGED classified

\* The call throws before it reaches the invoker
Throw(c, mod, api, in, error) ==
  /\ calls' = [calls EXCEPT ![c] =
                 [IdleCall EXCEPT !.pc = "settled", !.mod = mod, !.api = api,
                                  !.in = in, !.outcome = Rejected(error)]]
  /\ UNCHANGED classified

execCalibre(c, mod, command, args, options) ==
  /\ calls[c].pc = "idle"
  /\ Call(c, mod, "execCalibre",
          [command |-> command, args |-> args, options |-> options])

execCalibreJson(c, mod, command, args, options) ==
  /\ calls[c].pc = "idle"
  /\ Call(c, mod, "execCalibreJson",
          [command |-> command, args |-> args, options |-> options])

execCalibreStream(c, mod, command, args, options) ==
  /\ calls[c].pc = "idle"
  /\ Call(c, mod, "execCalibreStream",
          [command |-> command, args |-> args, options |-> options])

list(c, mod, options) ==
  /\ calls[c].pc = "idle"
  /\ Call(c, mod, "list", [options |-> options])

search(c, mod, searchExpression, options) ==
  /\ calls[c].pc = "idle"
  /\ Call(c, mod, "search",
          [searchExpression |-> searchExpression, options |-> options])

getBookById(c, mod, id, options) ==
  /\ calls[c].pc = "idle"
  /\ Call(c, mod, "getBookById", [id |-> id, options |-> options])

add(c, mod, paths, options) ==
  /\ calls[c].pc = "idle"
  /\ Call(c, mod, "add", [paths |-> paths, options |-> options])

addBook(c, mod, path, options) ==
  /\ calls[c].pc = "idle"
  /\ Call(c, mod, "addBook", [path |-> path, options |-> options])

\* addEmptyBook without the title check
addEmptyBookUnchecked(c, mod, options) ==
  /\ calls[c].pc = "idle"
  /\ Call(c, mod, "addEmptyBook", [options |-> options])

\* addEmptyBook throws when options.title is missing or empty, before add
addEmptyBook(c, mod, options) ==
  /\ calls[c].pc = "idle"
  /\ IF ~TruthyStr(options, "title")
       THEN Throw(c, mod, "addEmptyBook", [options |-> options],
                  TitleRequired)
       ELSE Call(c, mod, "addEmptyBook", [options |-> options])

addDirectory(c, mod, directoryPath, options) ==
  /\ calls[c].pc = "idle"
  /\ Call(c, mod, "addDirectory",
          [directoryPath |-> directoryPath, options |-> options])

remove(c, mod, bookIds, options) ==
  /\ calls[c].pc = "idle"
  /\ Call(c, mod, "remove", [bookIds |-> bookIds, options |-> options])

removeBook(c, mod, bookId, options) ==
  /\ calls[c].pc = "idle"
  /\ Call(c, mod, "removeBook", [bookId |-> bookId, options |-> options])

removePermanently(c, mod, bookIds, options) ==
  /\ calls[c].pc = "idle"
  /\ Call(c, mod, "removePermanently",
          [bookIds |-> bookIds, options |-> options])

\* removeBySearch is not implemented: it throws
removeBySearch(c, mod, searchExpression, options) ==
  /\ calls[c].pc = "idle"
  /\ Throw(c, mod, "removeBySearch",
           [searchExpression |-> searchExpression, options |-> options],
           [name |-> "Error", message |-> <<"Not Implemented!">>])

\* The caller passes to call c the args array it passed to call d: c reads
\* the array as it is now, and what c does to it shows in d's array too
CallSameArgs(c, d, mod, api, command, options) ==
  LET started == Started(mod, api, [command |-> command,
                                    args |-> calls[d].callerArgs,
                                    options |-> options])
  IN /\ calls[c].pc = "idle"
     /\ c # d
     /\ calls[d].api \in {"execCalibre", "execCalibreJson"}
     /\ calls[d].argsOf = "none"
     /\ calls' = [calls EXCEPT ![c] = [started EXCEPT !.argsOf = d],
                               ![d].callerArgs = started.callerArgs]
     /\ UNCHANGED classified

execCalibreSameArgs(c, d, mod, command, options) ==
  CallSameArgs(c, d, mod, "execCalibre", command, options)

execCalibreJsonSameArgs(c, d, mod, command, options) ==
  CallSameArgs(c, d, mod, "execCalibreJson", command, options)

\* The child process of call c exits
ProcessExit(c, result) ==
  /\ calls[c].procState = "running"
  /\ calls' = [calls EXCEPT ![c].procState = "exited",
                            ![c].exitCode = result.exitCode,
                            ![c].stdout = result.stdout,
                            ![c].stderr = result.stderr]
  /\ UNCHANGED classified

\* Resume that does not wait for the process to exit
ResumeEarly(c) ==
  /\ calls[c].pc = "awaiting"
  /\ calls' = [calls EXCEPT ![c].pc = "settled",
                            ![c].outcome = Outcome(calls[c])]
  /\ UNCHANGED classified

\* Resume that starts the process again when it has failed
ResumeRetrying(c) ==
  /\ calls[c].pc = "awaiting"
  /\ calls[c].procState = "exited"
  /\ calls' = IF calls[c].exitCode # 0 /\ calls[c].spawned < 2
                THEN [calls EXCEPT ![c].procState = "running",
                                   ![c].spawned = @ + 1]
                ELSE [calls EXCEPT ![c].pc = "settled",
                                   ![c].outcome = Outcome(calls[c])]
  /\ UNCHANGED classified

\* The await on execa returns: the rest of the operation runs and the
\* call settles
Resume(c) ==
  /\ calls[c].pc = "awaiting"
  /\ calls[c].procState = "exited"
  /\ calls' = [calls EXCEPT ![c].pc = "settled",
                            ![c].outcome = Outcome(calls[c])]
  /\ UNCHANGED classified

\* determineErrorType is applied to an error text
Classify ==
  /\ ~classified.done
  /\ \E command \in {"list", "remove"}, stderr \in ErrorTexts :
       classified' = [done |-> TRUE, command |-> command, stderr |-> stderr,
                      error |-> determineErrorType(command, stderr)]
  /\ UNCHANGED calls

Next ==
  \E c \in CallIds :
    \/ \E mod \in Mods, command \in Commands, args \in ArgLists,
          options \in CalibreOptions :
         \/ execCalibre(c, mod, command, args, options)
         \/ execCalibreJson(c, mod, command, args, options)
         \/ execCalibreStream(c, mod, command, args, options)
    \/ \E mod \in Mods, options \in ListOptions : list(c, mod, options)
    \/ \E mod \in Mods, options \in SearchlessListOptions :
         \/ search(c, mod, "title:x", options)
         \/ \E id \in {7, 42} : getBookById(c, mod, id, options)
    \/ \E mod \in Mods, paths \in PathLists, options \in AddOptions :
         add(c, mod, paths, options)
    \/ \E mod \in Mods, path \in {"a.epub"}, options \in AddOptions :
         \/ addBook(c, mod, path, options)
         \/ addDirectory(c, mod, path, options)
    \/ \E mod \in Mods, options \in AddOptions : addEmptyBook(c, mod, options)
    \/ \E mod \in Mods, bookIds \in BookIdLists, options \in RemoveOptions :
         \/ remove(c, mod, bookIds, options)
         \/ removePermanently(c, mod, bookIds, options)
    \/ \E mod \in Mods, bookId \in {7, 42}, options \in RemoveOptions :
         removeBook(c, mod, bookId, options)
    \/ \E mod \in Mods, options \in RemoveOptions :
         removeBySearch(c, mod, "title:x", options)
    \/ \E result \in ProcessResults : ProcessExit(c, result)
    \/ Resume(c)

Spec == Init /\ [][Next]_vars

\* The classifier alone, on the error texts
NextClassifier == Classify

SpecClassifier == Init /\ [][NextClassifier]_vars

\* Two calls in flight at once, of one generation of core/exec.ts
ConcurrentCallIds == {"c1", "c2"}

ConcurrentOptions ==
  {EmptyObject, [libraryPath |-> "/lib"], [forMachine |-> TRUE]}

ConcurrentResults ==
  {[exitCode |-> 0, stdout |-> <<"[", "1", ",", " ", "2", "]">>, stderr |-> << >>],
   [exitCode |-> 0, stdout |-> <<"[", "1", ",">>, stderr |-> << >>],
   [exitCode |-> 1, stdout |-> << >>, stderr |-> <<"T", "r", "a", "c", "e", "b", "a", "c", "k">>]}

\* AddOptions objects with tags; a tag is any string
TagOptions ==
  {[tags |-> <<"a">>], [tags |-> <<"a", "b">>], [tags |-> <<"a,b">>],
   [tags |-> <<"b", "a">>, title |-> "T"]}

InitConcurrent ==
  /\ calls = [c \in ConcurrentCallIds |-> IdleCall]
  /\ classified = NotClassified

\* The generations of core/exec.ts a further call can run: the one every
\* call made so far runs
LinkedMods ==
  {mod \in Mods :
     \A c \in ConcurrentCallIds : calls[c].pc = "idle" \/ calls[c].mod = mod}

NextConcurrent ==
  \E c \in ConcurrentCallIds :
    \/ \E mod \in LinkedMods, args \in ArgLists,
          options \in ConcurrentOptions :
         \/ execCalibre(c, mod, "list", args, options)
         \/ execCalibreJson(c, mod, "list", args, options)
    \/ \E mod \in LinkedMods, options \in TagOptions :
         add(c, mod, <<"a.epub">>, options)
    \/ \E mod \in LinkedMods, d \in ConcurrentCallIds,
          options \in ConcurrentOptions :
         \/ execCalibreSameArgs(c, d, mod, "list", options)
         \/ execCalibreJsonSameArgs(c, d, mod, "list", options)
    \/ \E result \in ConcurrentResults : ProcessExit(c, result)
    \/ Resume(c)

SpecConcurrent == InitConcurrent /\ [][NextConcurrent]_vars

-----------------------------------------------------------------------------
(* Vocabulary of the properties                                             *)

\* The call has settled after its process was awaited (execCalibre or
\* execCalibreJson ran to its end)
SettledBuffered(call) ==
  /\ call.pc = "settled"
  /\ call.strategy \in {"text", "json"}
  /\ call.procState = "exited"

\* text holds phrase somewhere, letter case aside
ContainsPhrase(text, phrase) ==
  \E i \in 0..(Len(text) - Len(phrase)) :
    \A k \in 1..Len(phrase) : toLowerCaseChar(text[i + k]) = phrase[k]

HasBookPhrase(text) ==
  \/ ContainsPhrase(text, <<"n", "o", " ", "b", "o", "o", "k", " ", "w", "i", "t", "h", " ", "i", "d">>)
  \/ ContainsPhrase(text, <<"b", "o", "o", "k", " ", "n", "o", "t", " ", "f", "o", "u", "n", "d">>)

HasLibraryPhrase(text) ==
  \/ ContainsPhrase(text, <<"l", "i", "b", "r", "a", "r", "y", " ", "n", "o", "t", " ", "f", "o", "u", "n", "d">>)
  \/ ContainsPhrase(text, <<"c", "a", "n", "n", "o", "t", " ", "f", "i", "n", "d", " ", "l", "i", "b", "r", "a", "r", "y">>)

HasToolPhrase(text) ==
  \/ ContainsPhrase(text, <<"c", "o", "m", "m", "a", "n", "d", " ", "n", "o", "t", " ", "f", "o", "u", "n", "d">>)
  \/ ContainsPhrase(text, <<"c", "a", "l", "i", "b", "r", "e", "d", "b", ":", " ", "n", "o", "t", " ", "f", "o", "u", "n", "d">>)

\* The number of times flag occurs in an argument vector
Count(argv, flag) == Cardinality({i \in 1..Len(argv) : argv[i] = flag})

-----------------------------------------------------------------------------
(* C1: every non-streaming invocation whose process exits non-zero fails   *)
(* with the case the classifier yields for (command, error text): the      *)
(* error the caller receives is of the class determineErrorType returns    *)
(* for the text attached to it.                                            *)
FailureIsClassified ==
  \A c \in CallIds :
    LET call == calls[c]
    IN SettledBuffered(call) /\ call.exitCode # 0 =>
         /\ call.outcome.kind = "rejected"
         /\ call.outcome.error.name =
              determineErrorType(call.command,
                                 errorOutput(call.stdout, call.stderr)).name

(* C2: the argument vector handed to the tool is the command, then         *)
(* --library-path and its value if and only if libraryPath is a non-empty  *)
(* string, then --for-machine if and only if machine-readable output is    *)
(* requested, then the caller's args as they were; the executable is       *)
(* options.calibreBin, or "calibredb" when that is absent.                 *)
ArgumentVectorExact ==
  \A c \in CallIds :
    LET call == calls[c]
        in == call.in
        machine == \/ call.api = "execCalibreJson"
                   \/ TruthyBool(in.options, "forMachine")
    IN call.api \in {"execCalibre", "execCalibreJson", "execCalibreStream"} =>
         /\ call.execArgs =
              <<in.command>>
                \o (IF Has(in.options, "libraryPath")
                       /\ in.options.libraryPath # ""
                      THEN <<"--library-path", in.options.libraryPath>>
                      ELSE << >>)
                \o (IF machine THEN <<"--for-machine">> ELSE << >>)
                \o in.args
         /\ call.bin = IF Has(in.options, "calibreBin")
                         THEN in.options.calibreBin ELSE "calibredb"

JsonDecodedOrDecodeFailure ==
  \A c \in CallIds :
    LET call == calls[c]
        parsed == JSON_parse(call.stdout)
    IN SettledBuffered(call) /\ call.strategy = "json" /\ call.exitCode = 0 =>
         IF parsed.ok
           THEN call.api \in {"execCalibreJson", "list", "search"}
                  => call.outcome = Resolved(parsed.value)
           ELSE /\ call.outcome.kind = "rejected"
                /\ call.outcome.error.name = "CalibreError"
                /\ call.outcome.error.command = call.command
                /\ call.outcome.error.stderr = call.stdout

JsonDecodeFailed ==
  \E c \in CallIds :
    LET call == calls[c]
    IN /\ SettledBuffered(call)
       /\ call.strategy = "json"
       /\ call.exitCode = 0
       /\ call.stdout = <<"[", "7", "]", " ", "x">>
       /\ call.outcome.kind = "rejected"

\* output has a line "Added book id: x" or "Added book ids: x", letter case
\* aside, with at least one character x before the line ends
HasConfirmationLine(output) ==
  \E i \in 1..Len(output), n \in {15, 16} :
    /\ i + n <= Len(output)
    /\ toLowerCase(SubSeq(output, i, i + n - 1))
         \in {<<"a", "d", "d", "e", "d", " ", "b", "o", "o", "k", " ", "i", "d", ":", " ">>, <<"a", "d", "d", "e", "d", " ", "b", "o", "o", "k", " ", "i", "d", "s", ":", " ">>}
    /\ ~IsLineTerminator(output[i + n])

(* C5: when the add process exits zero and its output has no line that     *)
(* matches the confirmation template, add (and addDirectory) resolves      *)
(* with the empty sequence and addBook and addEmptyBook resolve with null. *)
NoConfirmationIsEmptySuccess ==
  \A c \in CallIds :
    LET call == calls[c]
    IN /\ SettledBuffered(call)
       /\ call.command = "add"
       /\ call.exitCode = 0
       /\ ~HasConfirmationLine(call.stdout)
       => /\ call.api \in {"add", "addDirectory"} =>
               call.outcome = Resolved(JsonArray(<< >>))
          /\ call.api \in {"addBook", "addEmptyBook"} =>
               call.outcome = Resolved(JsonNull)

AddedNothing ==
  \E c \in CallIds :
    LET call == calls[c]
    IN /\ SettledBuffered(call)
       /\ call.api = "addBook"
       /\ call.exitCode = 0
       /\ call.stdout = <<"N", "o", " ", "b", "o", "o", "k", "s", " ", "a", "d", "d", "e", "d">>
       /\ call.outcome = Resolved(JsonNull)

(* C6: the classifier checks the book-not-found phrases first, then the    *)
(* library-not-found phrases, then the executable-missing phrases: a text  *)
(* with a book phrase classifies as BookNotFoundError whatever else it     *)
(* holds, and a text with a library phrase and an executable-missing       *)
(* phrase but no book phrase classifies as LibraryNotFoundError.           *)
ClassifierOrder ==
  classified.done =>
    LET text == classified.stderr
        name == classified.error.name
    IN /\ HasBookPhrase(text) => name = "BookNotFoundError"
       /\ ~HasBookPhrase(text) /\ HasLibraryPhrase(text) /\ HasToolPhrase(text)
            => name = "LibraryNotFoundError"

AllPhrasesClassified ==
  /\ classified.done
  /\ HasBookPhrase(classified.stderr)
  /\ HasLibraryPhrase(classified.stderr)
  /\ HasToolPhrase(classified.stderr)
  /\ classified.error.name = "BookNotFoundError"

(* C7: the raw error text is kept on the error of every case: the error    *)
(* the classifier returns for a text carries that text unchanged.          *)
RawTextPreserved ==
  classified.done => StderrOf(classified.error) = classified.stderr

\* text holds "id: " and a digit after it, letter case aside
HasNumericId(text) ==
  \E i \in 1..(Len(text) - 4) :
    /\ toLowerCaseChar(text[i]) = "i"
    /\ toLowerCaseChar(text[i + 1]) = "d"
    /\ text[i + 2] = ":"
    /\ text[i + 3] = " "
    /\ IsDigit(text[i + 4])

\* text holds "path", then colons or white space, then a token
HasPathToken(text) ==
  \E i \in 1..(Len(text) - 4) :
    /\ \A k \in 1..4 : toLowerCaseChar(text[i + k - 1]) = <<"p", "a", "t", "h">>[k]
    /\ \E j \in (i + 5)..Len(text) :
         /\ \A k \in (i + 4)..(j - 1) : text[k] = ":" \/ IsSpace(text[k])
         /\ ~IsSpace(text[j])

ClassifierIgnoresCase ==
  classified.done =>
    LET text == classified.stderr
        command == classified.command
    IN /\ determineErrorType(command, toUpperCase(text)).name
            = classified.error.name
       /\ determineErrorType(command, toLowerCase(text)).name
            = classified.error.name

MixedCasePhraseClassified ==
  /\ classified.done
  /\ ~includes(classified.stderr, <<"n", "o", " ", "b", "o", "o", "k", " ", "w", "i", "t", "h", " ", "i", "d">>)
  /\ ~includes(classified.stderr, <<"b", "o", "o", "k", " ", "n", "o", "t", " ", "f", "o", "u", "n", "d">>)
  /\ classified.stderr # toUpperCase(classified.stderr)
  /\ classified.error.name = "BookNotFoundError"

\* The command name the caller passed, or the one its operation stands for
CommandPassed(call) ==
  IF Has(call.in, "command") THEN call.in.command
  ELSE IF call.api \in {"list", "search", "getBookById"} THEN "list"
  ELSE IF call.api \in {"add", "addBook", "addEmptyBook", "addDirectory"}
    THEN "add"
  ELSE "remove"

(* C10: on a failed non-streaming invocation the text attached to the      *)
(* error is the captured standard error when it is non-empty, otherwise    *)
(* the captured standard output when that is non-empty, otherwise the      *)
(* placeholder; the error's command is the command name of the call.       *)
FailureCarriesErrorText ==
  \A c \in CallIds :
    LET call == calls[c]
    IN SettledBuffered(call) /\ call.exitCode # 0 =>
         /\ call.outcome.kind = "rejected"
         /\ call.outcome.error.stderr =
              (IF call.stderr # << >> THEN call.stderr
               ELSE IF call.stdout # << >> THEN call.stdout
               ELSE <<"N", "o", " ", "e", "r", "r", "o", "r", " ", "o", "u", "t", "p", "u", "t", " ", "a", "v", "a", "i", "l", "a", "b", "l", "e">>)
         /\ call.outcome.error.command = CommandPassed(call)

FailedWithStdoutOnly ==
  \E c \in CallIds :
    LET call == calls[c]
    IN /\ SettledBuffered(call)
       /\ call.exitCode # 0
       /\ call.stderr = << >>
       /\ call.stdout # << >>
       /\ call.outcome.kind = "rejected"

(* C11: addEmptyBook with a missing or empty title fails with "Title is    *)
(* required for an empty book" and no child process is started; with a     *)
(* non-empty title it runs add with no paths and --empty once.             *)
EmptyBookNeedsTitle ==
  \A c \in CallIds :
    LET call == calls[c]
        options == call.in.options
    IN call.api = "addEmptyBook" =>
         IF Has(options, "title") /\ options.title # ""
           THEN /\ call.spawned = 1
                /\ call.execArgs[1] = "add"
                /\ Count(call.execArgs, "--empty") = 1
                /\ \A i \in 1..Len(call.execArgs) :
                     call.execArgs[i] \notin {"a.epub", "b.epub"}
           ELSE /\ call.pc = "settled"
                /\ call.outcome.kind = "rejected"
                /\ call.outcome.error.name = "Error"
                /\ call.outcome.error.message
                     = <<"Title is required for an empty book">>
                /\ call.spawned = 0
                /\ call.procState = "none"

EmptyTitleRejected ==
  \E c \in CallIds :
    LET call == calls[c]
    IN /\ call.api = "addEmptyBook"
       /\ Has(call.in.options, "title")
       /\ call.in.options.title = ""
       /\ call.pc = "settled"
       /\ call.spawned = 0

(* C12: a call that reaches the invoker starts exactly one child process,  *)
(* whether it succeeds, fails or fails to decode; a call that throws       *)
(* before the invoker starts none; no call starts a second one.            *)
SpawnsExactlyOne ==
  \A c \in CallIds :
    LET call == calls[c]
    IN /\ call.spawned <= 1
       /\ call.strategy \in {"text", "json", "stream", "asyncStream"}
            => call.spawned = 1
       /\ call.strategy = "none" => call.spawned = 0

DecodeFailureSpawnedOnce ==
  \E c \in CallIds :
    LET call == calls[c]
    IN /\ call.api = "getBookById"
       /\ call.pc = "settled"
       /\ call.exitCode = 0
       /\ call.outcome.kind = "rejected"
       /\ call.outcome.error.name = "CalibreError"
       /\ call.spawned = 1

(* C13: when add is called with streaming requested, what the caller       *)
(* holds once the process has been started, and while it may still be      *)
(* running, is the handle of the process, not a value that comes after     *)
(* the process has exited.                                                 *)
StreamingAddReturnsHandle ==
  \A c \in CallIds :
    LET call == calls[c]
    IN /\ call.api = "add"
       /\ TruthyBool(call.in.options, "stream")
       /\ call.spawned = 1
       => call.outcome = Handle

(* C14: on the non-streaming path a call that has resolved or failed has   *)
(* seen its child process exit: no call through execCalibre holds a        *)
(* settled outcome while its process has not exited, and none is settled   *)
(* with its process still running.                                         *)
SettlesAfterExit ==
  \A c \in CallIds :
    LET call == calls[c]
    IN call.strategy \in {"text", "json"} =>
         /\ call.outcome.kind \in {"resolved", "rejected"}
              => call.procState = "exited"
         /\ call.pc = "settled" => call.procState = "exited"
         /\ call.procState = "running" => call.outcome = Pending

FailedAfterExit ==
  \E c \in CallIds :
    LET call == calls[c]
    IN /\ call.api = "remove"
       /\ call.pc = "settled"
       /\ call.exitCode # 0
       /\ call.outcome.kind = "rejected"
       /\ call.procState = "exited"

\* The args array of the call as the caller wrote it
ArgsWritten(call) ==
  IF call.argsOf = "none" THEN call.in.args ELSE calls[call.argsOf].in.args

(* C15: calls in flight together share no mutable state: whatever the      *)
(* order of the steps of two calls, the argument vector of each is the     *)
(* one the call would hand over alone, built from its own command,         *)
(* options and the args the caller wrote, and each call settles with the   *)
(* outcome of its own process.                                             *)
CallsShareNoState ==
  \A c \in ConcurrentCallIds :
    LET call == calls[c]
        alone == Started(call.mod, call.api,
                         [command |-> call.in.command,
                          args |-> ArgsWritten(call),
                          options |-> call.in.options])
    IN call.api \in {"execCalibre", "execCalibreJson"} =>
         /\ call.execArgs = alone.execArgs
         /\ call.bin = alone.bin
         /\ call.pc = "settled" => call.outcome = Outcome(call)

\* The set of tags passed to the add call
TagSet(call) == {call.in.options.tags[i] : i \in 1..Len(call.in.options.tags)}

(* C19: the tag list passed to add comes back from the library as it was   *)
(* passed, for every tag string: each tag reaches the tool as one tag, so  *)
(* two add calls that hand the tool the same argument vector were passed   *)
(* the same set of tags.                                                   *)
TagsReachToolApart ==
  \A c \in ConcurrentCallIds, d \in ConcurrentCallIds :
    /\ calls[c].api = "add"
    /\ calls[d].api = "add"
    /\ calls[c].execArgs = calls[d].execArgs
    => TagSet(calls[c]) = TagSet(calls[d])

(* C21: the default sort order of list is DESC: a list call with sortBy    *)
(* given and sortOrder omitted hands the tool the argument vector of the   *)
(* same call with sortOrder "DESC".                                        *)
DefaultSortOrderIsDesc ==
  \A c \in CallIds :
    LET call == calls[c]
        options == call.in.options
    IN /\ call.api = "list"
       /\ TruthyStr(options, "sortBy")
       /\ ~Has(options, "sortOrder")
       => call.execArgs =
            Started(call.mod, "list",
                    [options |-> Spread(options, "sortOrder", "DESC")]).execArgs

(* C23: a failed process never turns into an empty success: whenever the   *)
(* process of add, addBook, addEmptyBook or addDirectory exits non-zero    *)
(* the call fails with an error, also when the captured output holds an    *)
(* "Added book ids" line; the call resolves only when the process exited   *)
(* zero.                                                                   *)
FailedAddNeverSucceeds ==
  \A c \in CallIds :
    LET call == calls[c]
    IN /\ call.command = "add"
       /\ call.api \in {"add", "addBook", "addEmptyBook", "addDirectory"}
       /\ call.pc = "settled"
       /\ call.spawned = 1
       => /\ call.exitCode # 0 => call.outcome.kind = "rejected"
          /\ call.outcome.kind = "resolved" => call.exitCode = 0

FailedAddWithConfirmation ==
  \E c \in CallIds :
    LET call == calls[c]
    IN /\ call.api = "add"
       /\ call.strategy = "text"
       /\ call.pc = "settled"
       /\ call.exitCode # 0
       /\ HasConfirmationLine(call.stdout)
       /\ call.outcome.kind = "rejected"

\* token is a run of decimal digits and nothing else
IsIntegerToken(token) ==
  /\ token # << >>
  /\ \A i \in 1..Len(token) : IsDigit(token[i])

\* The integers among the tokens, in their order; the other tokens dropped
RECURSIVE IntegersAmong(_)
IntegersAmong(tokens) ==
  IF tokens = << >> THEN << >>
  ELSE LET token == trim(Head(tokens))
       IN (IF IsIntegerToken(token) THEN <<DigitsValue(token)>> ELSE << >>)
            \o IntegersAmong(Tail(tokens))

(* C24: for an output with a line "Added book ids: i1, ..., ik" add        *)
(* returns exactly the integers of the comma-separated run in their order  *)
(* of appearance; tokens that are empty or not numeric are dropped.        *)
AddReturnsTheIntegers ==
  \A c \in CallIds :
    LET call == calls[c]
        match == addedIdsMatch(call.stdout)
    IN /\ call.api = "add"
       /\ SettledBuffered(call)
       /\ call.exitCode = 0
       /\ match.matched
       => call.outcome = Resolved(JsonArray(IntegersAmong(split(match.group1))))

\* The paths the caller passed to the add operation
PathsPassed(call) ==
  CASE call.api = "add" -> call.in.paths
    [] call.api = "addBook" -> <<call.in.path>>
    [] call.api = "addDirectory" -> <<call.in.directoryPath>>
    [] OTHER -> << >>

(* C25: in the argument vector add builds the paths come after every       *)
(* option flag and option value: they are the final segment of the vector, *)
(* in the order given, and nothing before that segment is a path.          *)
PathsComeLast ==
  \A c \in CallIds :
    LET call == calls[c]
        paths == PathsPassed(call)
        n == Len(call.execArgs)
    IN call.command = "add" /\ call.spawned = 1
       /\ call.api \in {"add", "addBook", "addEmptyBook", "addDirectory"} =>
         /\ n >= Len(paths) + 1
         /\ SubSeq(call.execArgs, n - Len(paths) + 1, n) = paths
         /\ \A i \in 1..(n - Len(paths)) :
              call.execArgs[i] \notin {"a.epub", "b.epub"}

PathsAfterManyOptions ==
  \E c \in CallIds :
    LET call == calls[c]
    IN /\ call.api = "add"
       /\ call.spawned = 1
       /\ call.in.paths = <<"a.epub", "b.epub">>
       /\ Has(call.in.options, "identifiers")
       /\ Has(call.in.options, "languages")

\* The decimal numerals of the book ids the callers pass
DecimalOf == (7 :> "7") @@ (42 :> "42") @@ (100 :> "100")

\* The ids a remove operation was passed
IdsPassed(call) ==
  IF call.api = "removeBook" THEN <<call.in.bookId>> ELSE call.in.bookIds

\* The vector ends with the decimal numerals of ids, in order, followed by
\* --permanent exactly when permanent holds, and has no other --permanent
EndsWithIds(v, ids, permanent) ==
  LET tail == [i \in 1..Len(ids) |-> DecimalOf[ids[i]]]
                \o (IF permanent THEN <<"--permanent">> ELSE << >>)
      n == Len(v)
  IN /\ n >= Len(tail) + 1
     /\ SubSeq(v, n - Len(tail) + 1, n) = tail
     /\ Count(v, "--permanent") = (IF permanent THEN 1 ELSE 0)

(* C26: remove passes the ids as decimal strings in the order given and    *)
(* appends --permanent exactly when options.permanent is truthy;           *)
(* removePermanently passes --permanent whatever the caller's options      *)
(* hold; removeBook(id) hands execa what remove([id]) hands it.            *)
RemoveVector ==
  \A c \in CallIds :
    LET call == calls[c]
    IN call.spawned = 1 =>
         /\ call.api \in {"remove", "removeBook"} =>
              EndsWithIds(call.execArgs, IdsPassed(call),
                          Has(call.in.options, "permanent")
                            /\ call.in.options.permanent = TRUE)
         /\ call.api = "removePermanently" =>
              EndsWithIds(call.execArgs, IdsPassed(call), TRUE)
         /\ call.api = "removeBook" =>
              LET same == Started(call.mod, "remove",
                                  [bookIds |-> <<call.in.bookId>>,
                                   options |-> call.in.options])
              IN /\ call.bin = same.bin
                 /\ call.execArgs = same.execArgs

PermanentDespiteFalse ==
  \E c \in CallIds :
    LET call == calls[c]
    IN /\ call.api = "removePermanently"
       /\ call.spawned = 1
       /\ Len(call.in.bookIds) >= 2
       /\ Has(call.in.options, "permanent")
       /\ call.in.options.permanent = FALSE

(* C27: the buffered path and the streaming path build the same            *)
(* invocation: what execCalibreStream hands to execa, the executable and   *)
(* the argument vector, is what execCalibre builds from the same command,  *)
(* args and options, and the other way round.                              *)
StreamBuildsAsBuffered ==
  \A c \in CallIds :
    LET call == calls[c]
    IN call.spawned = 1 =>
         /\ call.api = "execCalibreStream" =>
              /\ call.bin = calibreBin(call.in.options)
              /\ call.execArgs = execArgs(call.mod, call.in.command,
                                          call.in.args, call.in.options)
         /\ call.api = "execCalibre" =>
              /\ call.bin = calibreBinStream(call.in.options)
              /\ call.execArgs = execArgsStream(call.mod, call.in.command,
                                                call.in.args, call.in.options)

StreamedForMachine ==
  \E c \in CallIds :
    LET call == calls[c]
    IN /\ call.api = "execCalibreStream"
       /\ call.mod = "core"
       /\ call.spawned = 1
       /\ call.in.args # << >>
       /\ TruthyBool(call.in.options, "forMachine")
       /\ TruthyStr(call.in.options, "libraryPath")
       /\ Has(call.in.options, "calibreBin")

(* C28: no operation modifies its inputs: once execCalibre, execCalibreJson *)
(* or execCalibreStream has been called, and after it has settled with a    *)
(* value or an error, the caller's args array holds the contents it was     *)
(* passed with.                                                             *)
InputsUnmodified ==
  \A c \in CallIds :
    LET call == calls[c]
    IN call.pc # "idle" /\ Has(call.in, "args") =>
         call.callerArgs = call.in.args

\* text holds "id: " and then the decimal numeral of n, letter case aside
IdWritten(text, n) ==
  \E i \in 1..(Len(text) - 4) :
    /\ toLowerCase(SubSeq(text, i, i + 3)) = <<"i", "d", ":", " ">>
    /\ IsDigit(text[i + 4])
    /\ DigitsValue(SubSeq(text, i + 4, RunEnd(text, i + 4, "digit") - 1)) = n

\* text holds "path", colons or white space, and then token, which ends at
\* white space or at the end of the text; "path" in any letter case, the
\* token character for character
PathWritten(text, token) ==
  \E i \in 1..(Len(text) - 4), j \in 1..Len(text) :
    /\ toLowerCase(SubSeq(text, i, i + 3)) = <<"p", "a", "t", "h">>
    /\ j > i + 4
    /\ \A k \in (i + 4)..(j - 1) : text[k] = ":" \/ IsSpace(text[k])
    /\ StartsWithAt(text, token, j)
    /\ token # << >>
    /\ j + Len(token) <= Len(text) => IsSpace(text[j + Len(token)])

(* C29: a detail the classifier extracts is the token as the raw text has  *)
(* it: an extracted libraryPath is, character for character and in the     *)
(* same letter case, the token that follows "path" in the raw text, and an *)
(* extracted bookId is the number written after "id: " in the raw text.    *)
DetailAsWritten ==
  classified.done =>
    LET text == classified.stderr
        error == classified.error
    IN /\ error.name = "LibraryNotFoundError" /\ HasPathToken(text) =>
            PathWritten(text, error.libraryPath)
       /\ error.name = "BookNotFoundError" /\ error.bookId # BookIdUnknown =>
            IdWritten(text, error.bookId.n)

(* C30: add, in buffered and in streaming mode, and remove never request   *)
(* machine-readable output: whatever options object the caller passes, one *)
(* with forMachine true included, the argument vector of an add or remove  *)
(* operation does not contain --for-machine.                               *)
TextOperationsNeverForMachine ==
  \A c \in CallIds :
    LET call == calls[c]
    IN call.spawned = 1
       /\ call.api \in {"add", "addBook", "addEmptyBook", "addDirectory",
                        "remove", "removeBook", "removePermanently"} =>
         Count(call.execArgs, "--for-machine") = 0

====
